---- MODULE Spec2Model ----
(***************************************************************************)
(* Model of scrape.py: the retrying GET (fetch_html), the retrying form    *)
(* POST (make_post_request), the per-item pipeline (fetch_job_and_email,   *)
(* get_live_recovery_email) and the orchestrator (main) with its thread    *)
(* pool and its CSV sink.                                                  *)
(*                                                                         *)
(* Python values are wrapped so that values of different Python types can  *)
(* be compared: None is [t |-> "None"], a str is [t |-> "str", v |-> s]    *)
(* with s a sequence of tokens (a token stands for a run of characters     *)
(* that the program never splits), and the text of an HTML response is     *)
(* [t |-> "text", empty |-> ..., doc |-> ...].                             *)
(***************************************************************************)
EXTENDS Naturals, Integers, Sequences, FiniteSets, TLC

VARIABLES
    call,              \* the activation of fetch_html / make_post_request under study
    pc,                \* position of main
    first_page_html,   \* main: result of the initial fetch of listing page 1 (see Kept)
    total_pages,       \* main: number of listing pages to crawl
    page_number,       \* main: loop variable of the crawl loop
    search_page_html,  \* main: result of the latest listing fetch of the crawl loop
    futures,           \* main: the futures list, one entry per executor.submit
    completed,         \* indices of the finished futures, in the order they finished
    finished_first,    \* as_completed: the futures found finished when it was called
    yielded,           \* indices of futures already returned by as_completed
    dict_writer,       \* main: None, or the csv.DictWriter's fieldnames
    sink,              \* what has been written to job_data.csv during this run
    requested          \* listing page numbers passed to fetch_html, in call order

vars == <<call, pc, first_page_html, total_pages, page_number, search_page_html,
          futures, completed, finished_first, yielded, dict_writer, sink, requested>>

mainVars == <<pc, first_page_html, total_pages, page_number, search_page_html,
              futures, completed, finished_first, yielded, dict_writer, sink,
              requested>>

---------------------------------------------------------------------------
(* Bounds of the model *)
MaxRetries == 3    \* largest value of the `retries` argument explored
MaxBackoff == 2    \* largest value of the `backoff_factor` argument explored
MaxPages == 2      \* the total count of page 1 is at most MaxPages * results_per_page
MaxArticles == 2   \* most article elements on one listing page
MaxFutures == 2    \* most submissions to the pool in one run

(* Program constants *)
results_per_page == 25
max_workers == 5
default_retries == 3
default_backoff_factor == 2

---------------------------------------------------------------------------
(* Python values *)
None == [t |-> "None"]
Str(s) == [t |-> "str", v |-> s]
Text(doc) == [t |-> "text", empty |-> FALSE, doc |-> doc]
EmptyText(doc) == [t |-> "text", empty |-> TRUE, doc |-> doc]

\* Python truthiness of a value that is None or a response text.
Truthy(x) == x # None /\ ~x.empty

RECURSIVE Pow(_, _)
Pow(b, e) == IF e = 0 THEN 1 ELSE b * Pow(b, e - 1)

\* str.strip() on a token sequence: leading and trailing blanks removed.
RECURSIVE LStrip(_)
LStrip(s) == IF s # <<>> /\ Head(s) = " " THEN LStrip(Tail(s)) ELSE s

RECURSIVE RStrip(_)
RStrip(s) ==
    IF s # <<>> /\ s[Len(s)] = " " THEN RStrip(SubSeq(s, 1, Len(s) - 1)) ELSE s

Strip(s) == RStrip(LStrip(s))

\* Python's `sub in s` for strings.
Contains(sub, s) ==
    \E i \in 1..(Len(s) + 1) :
        /\ i + Len(sub) - 1 <= Len(s)
        /\ SubSeq(s, i, i + Len(sub) - 1) = sub

---------------------------------------------------------------------------
(* What the network can answer.  A transport failure is an outcome with    *)
(* exc = TRUE; its status_code 0 only fills the field.                     *)
Response(status, body) == [exc |-> FALSE, status_code |-> status, body |-> body]
TransportException(body) == [exc |-> TRUE, status_code |-> 0, body |-> body]

\* The outcomes of one request whose 200 answers carry a body of `bodies`
\* (`any` is the body, never read, of the other outcomes).
Outcomes(bodies, any) ==
    {Response(200, b) : b \in bodies}
        \cup {Response(503, any), Response(404, any), TransportException(any)}

---------------------------------------------------------------------------
(* The retry loop shared by fetch_html and make_post_request.  An          *)
(* activation records the loop variable, the requests sent, the sleeps     *)
(* performed (their lengths in seconds, in order), the outcome of every    *)
(* request (status code, 0 for a transport exception), the last outcome,   *)
(* and the value returned.                                                 *)
NewCall(fn, retries, backoff_factor, any) ==
    [fn |-> fn, retries |-> retries, backoff_factor |-> backoff_factor,
     attempt |-> 0, requests |-> 0, waits |-> <<>>, statuses |-> <<>>,
     last |-> TransportException(any), returned |-> FALSE, result |-> None]

Return(c, value) == [c EXCEPT !.returned = TRUE, !.result = value]

\* requests.get / requests.post has been called and has answered r.
Sent(c, r) ==
    [c EXCEPT !.requests = @ + 1,
              !.statuses = Append(@, r.status_code),
              !.last = r]

\* time.sleep(backoff_factor ** attempt), then the next iteration of the loop.
Backoff(c) ==
    [c EXCEPT !.waits = Append(@, Pow(c.backoff_factor, c.attempt)),
              !.attempt = @ + 1]

\* The loop bound off by one: range(retries + 1).
attempts_left_one_more(c) == c.attempt <= c.retries

\* for attempt in range(retries): another iteration follows.
attempts_left(c) == c.attempt < c.retries

\* fetch_html retrying after a transport exception as it does after a 503.
fetch_html_attempt_retrying_exception(c, r) ==
    IF r.exc THEN Backoff(Sent(c, r))
    ELSE IF r.status_code = 200 THEN Return(Sent(c, r), r.body)
    ELSE IF r.status_code = 503 THEN Backoff(Sent(c, r))
    ELSE Return(Sent(c, r), None)

\* One iteration of the for loop of fetch_html.
fetch_html_attempt(c, r) ==
    IF r.exc THEN Return(Sent(c, r), None)
    ELSE IF r.status_code = 200 THEN Return(Sent(c, r), r.body)
    ELSE IF r.status_code = 503 THEN Backoff(Sent(c, r))
    ELSE Return(Sent(c, r), None)

\* The for loop of fetch_html has run out of attempts.
fetch_html_exhausted(c) == Return(c, None)

---------------------------------------------------------------------------
(* Detail pages, as far as parse_job_posting_details reads them: whether   *)
(* the h1.title/span[property=title] pair and the span[property=datePosted] *)
(* are present.                                                            *)
DetailDocs == [title : BOOLEAN, datePosted : BOOLEAN]
AnyDetailDoc == [title |-> TRUE, datePosted |-> TRUE]
DetailTexts == {Text(d) : d \in DetailDocs} \cup {EmptyText(AnyDetailDoc)}

(* Bodies of a 200 answer to the contact POST: whether the XML envelope    *)
(* holds <update id="applynow">, whether its fragment holds an             *)
(* <a href="mailto:...">, and the text of that anchor.                     *)
AnchorTexts ==
    { <<" ", "hr", "@", "live", ".", "com", " ">>,
      <<"hr", "@", "my", "live", ".", "com">>,
      <<"jobs", "@", "acme", ".", "org">> }
AnyPostBody == [update |-> FALSE, hasAnchor |-> FALSE, text |-> <<>>]
PostBodies ==
    {AnyPostBody, [update |-> TRUE, hasAnchor |-> FALSE, text |-> <<>>]}
        \cup {[update |-> TRUE, hasAnchor |-> TRUE, text |-> a] : a \in AnchorTexts}

\* The strings make_post_request returns besides an address.
NotFoundStr == <<"Not", " ", "found">>
FailedStr == <<"Failed">>
ErrorStr == <<"Error">>

\* The body of `if response.status_code == 200:` in make_post_request.
\* soup.find('update', id="applynow") is None when the element is missing, and
\* `.string` on it raises inside the try block.
parse_post_response(c, body) ==
    IF ~body.update THEN Return(c, Str(ErrorStr))
    ELSE IF body.hasAnchor THEN Return(c, Str(Strip(body.text)))
    ELSE Return(c, Str(NotFoundStr))

\* One iteration of the for loop of make_post_request.
make_post_request_attempt(c, r) ==
    IF r.exc THEN Return(Sent(c, r), Str(ErrorStr))
    ELSE IF r.status_code = 200 THEN parse_post_response(Sent(c, r), r.body)
    ELSE IF r.status_code = 503 THEN Backoff(Sent(c, r))
    ELSE Return(Sent(c, r), Str(FailedStr))

\* The for loop of make_post_request has run out of attempts.
make_post_request_exhausted(c) == Return(c, Str(ErrorStr))

\* The outcome sequences one call with the default retries can meet: 503s,
\* fewer than default_retries of them, and then the outcome that ends the
\* call, or default_retries 503s.
Unavailable(k, any) == [i \in 1..k |-> Response(503, any)]
Runs(bodies, any) ==
    {Unavailable(default_retries, any)}
        \cup UNION { {Unavailable(k, any) \o <<r>> :
                         r \in Outcomes(bodies, any) \ {Response(503, any)}} :
                     k \in 0..(default_retries - 1) }

\* A whole call: the loop run against the outcomes rs, one per attempt.
RECURSIVE fetch_html_loop(_, _)
fetch_html_loop(c, rs) ==
    IF c.returned THEN c
    ELSE IF ~attempts_left(c) THEN fetch_html_exhausted(c)
    ELSE fetch_html_loop(fetch_html_attempt(c, Head(rs)), Tail(rs))

RECURSIVE make_post_request_loop(_, _)
make_post_request_loop(c, rs) ==
    IF c.returned THEN c
    ELSE IF ~attempts_left(c) THEN make_post_request_exhausted(c)
    ELSE make_post_request_loop(make_post_request_attempt(c, Head(rs)), Tail(rs))

\* fetch_html(url) and make_post_request(job_id) as the program calls them,
\* with the default retries and backoff_factor.
fetch_html(rs, any) ==
    fetch_html_loop(
        NewCall("fetch_html", default_retries, default_backoff_factor, any), rs).result

make_post_request(rs) ==
    make_post_request_loop(
        NewCall("make_post_request", default_retries, default_backoff_factor,
                AnyPostBody), rs).result

---------------------------------------------------------------------------
(* The retry loop on its own: one activation of fetch_html or of           *)
(* make_post_request, for every retries and backoff_factor within the      *)
(* bounds, stepped one loop iteration at a time.                           *)
IdleCall == NewCall("none", 0, 0, AnyPostBody)

FetchHtmlAttempt ==
    /\ call.fn = "fetch_html" /\ ~call.returned /\ attempts_left(call)
    /\ \E r \in Outcomes(DetailTexts, Text(AnyDetailDoc)) :
           call' = fetch_html_attempt(call, r)
    /\ UNCHANGED mainVars

FetchHtmlExhausted ==
    /\ call.fn = "fetch_html" /\ ~call.returned /\ ~attempts_left(call)
    /\ call' = fetch_html_exhausted(call)
    /\ UNCHANGED mainVars

MakePostRequestAttempt ==
    /\ call.fn = "make_post_request" /\ ~call.returned /\ attempts_left(call)
    /\ \E r \in Outcomes(PostBodies, AnyPostBody) :
           call' = make_post_request_attempt(call, r)
    /\ UNCHANGED mainVars

MakePostRequestExhausted ==
    /\ call.fn = "make_post_request" /\ ~call.returned /\ ~attempts_left(call)
    /\ call' = make_post_request_exhausted(call)
    /\ UNCHANGED mainVars

MainInit ==
    /\ pc = "start"
    /\ first_page_html = None
    /\ total_pages = 0
    /\ page_number = 0
    /\ search_page_html = None
    /\ futures = <<>>
    /\ completed = <<>>
    /\ finished_first = {}
    /\ yielded = {}
    /\ dict_writer = None
    /\ sink = <<>>
    /\ requested = <<>>

InitRetry ==
    /\ MainInit
    /\ \E n \in 1..MaxRetries, b \in 1..MaxBackoff :
           \/ call = NewCall("fetch_html", n, b, Text(AnyDetailDoc))
           \/ call = NewCall("make_post_request", n, b, AnyPostBody)

NextRetry ==
    \/ FetchHtmlAttempt
    \/ FetchHtmlExhausted
    \/ MakePostRequestAttempt
    \/ MakePostRequestExhausted

SpecRetry == InitRetry /\ [][NextRetry]_vars

---------------------------------------------------------------------------
(* Listing pages, as far as main reads them: whether the                   *)
(* div.results-summary/span.found pair is present, the text of that span,  *)
(* and the id attributes of the article elements in document order.        *)
DigitChars == <<"0", "1", "2", "3", "4", "5", "6", "7", "8", "9">>

\* The decimal digits of n, as the site prints a count.
RECURSIVE Digits(_)
Digits(n) ==
    IF n < 10 THEN <<DigitChars[n + 1]>>
    ELSE Append(Digits(n \div 10), DigitChars[(n % 10) + 1])

\* str.replace(',', '')
RemoveCommas(s) == SelectSeq(s, LAMBDA ch : ch # ",")

DigitValue(ch) == CHOOSE d \in 0..9 : DigitChars[d + 1] = ch

\* int(s) for a string without sign or blanks: a ValueError unless s is a
\* non-empty run of digits.
RECURSIVE DecimalValue(_)
DecimalValue(s) ==
    IF s = <<>> THEN 0
    ELSE 10 * DecimalValue(SubSeq(s, 1, Len(s) - 1)) + DigitValue(s[Len(s)])

int(s) ==
    IF s # <<>> /\ \A i \in 1..Len(s) : \E d \in 1..10 : DigitChars[d] = s[i]
    THEN [raised |-> FALSE, value |-> DecimalValue(s)]
    ELSE [raised |-> TRUE, value |-> 0]

extract_total_postings(doc) ==
    IF doc.summary THEN int(RemoveCommas(doc.found))
    ELSE [raised |-> FALSE, value |-> 0]

ArticleIds == { <<"article", "-", "101">>, <<"banner", "-", "top">> }
DigitRuns == {"101", "102"}

\* re.compile(r'article-\d+') found somewhere in the id attribute.
MatchesArticle(id) ==
    \E i \in 1..Len(id) :
        /\ i + 2 <= Len(id)
        /\ id[i] = "article" /\ id[i + 1] = "-" /\ id[i + 2] \in DigitRuns

\* id.split('-')[1]: what stands between the first '-' and the next one.
RECURSIVE UpToDash(_)
UpToDash(s) ==
    IF s = <<>> \/ Head(s) = "-" THEN <<>> ELSE <<Head(s)>> \o UpToDash(Tail(s))

RECURSIVE AfterDash(_)
AfterDash(s) ==
    IF s = <<>> THEN <<>> ELSE IF Head(s) = "-" THEN Tail(s) ELSE AfterDash(Tail(s))

SplitSecond(id) == UpToDash(AfterDash(id))

RECURSIVE extract_job_ids(_)
extract_job_ids(articles) ==
    IF articles = <<>> THEN <<>>
    ELSE IF MatchesArticle(Head(articles))
         THEN <<Str(SplitSecond(Head(articles)))>> \o extract_job_ids(Tail(articles))
         ELSE extract_job_ids(Tail(articles))

ArticleSeqs == UNION {[1..n -> ArticleIds] : n \in 0..MaxArticles}
AnyListingDoc == [summary |-> FALSE, found |-> <<>>, articles |-> <<>>]

\* The answers to the initial request differ in their count; those to the
\* requests of the crawl loop in their articles.
CountTexts ==
    {Digits(n) : n \in 0..(MaxPages * results_per_page)}
        \cup { <<"0", ",", "0", "2", "6">>, <<"N", "/", "A">> }
FirstPageArticles == << <<"article", "-", "102">> >>
FirstPageTexts ==
    {Text([summary |-> TRUE, found |-> t, articles |-> FirstPageArticles]) :
        t \in CountTexts}
        \cup {Text(AnyListingDoc), EmptyText(AnyListingDoc)}
CrawlPageTexts ==
    {Text([summary |-> FALSE, found |-> <<>>, articles |-> a]) : a \in ArticleSeqs}
        \cup {EmptyText(AnyListingDoc)}

FirstPageRuns == Runs(FirstPageTexts, Text(AnyListingDoc))
CrawlPageRuns == Runs(CrawlPageTexts, Text(AnyListingDoc))
DetailRuns == Runs(DetailTexts, Text(AnyDetailDoc))
PostRuns == Runs(PostBodies, AnyPostBody)

\* What main keeps of a fetched text once it has parsed it: that it is a text.
Kept(html) == IF html = None THEN None ELSE [t |-> "text"]

---------------------------------------------------------------------------
(* The per-item pipeline, fetch_job_and_email.  A future is queued, then   *)
(* running (its pipeline has parsed the detail page), then finished with   *)
(* the dict the pipeline returned, with None, or with the exception that   *)
(* left it.  `calls` lists the network calls the pipeline has made and     *)
(* recovery_page is the answer its recovery GET met.                       *)
live_domains ==
    << <<"outlook", ".", "com">>, <<"hotmail", ".", "com">>,
       <<"live", ".", "com">>, <<"live", ".", "ca">> >>

\* The keys of the dict parse_job_posting_details returns, then with the two
\* keys fetch_job_and_email adds.
DetailKeys ==
    <<"job_id", "job_url", "job_title", "posted_date", "employer_name",
      "employer_link", "location", "region", "salary", "hours",
      "employment_type", "source", "lmia">>
RecordKeys == DetailKeys \o <<"email", "live_email_recovery">>

\* Answers to the recovery GET: a transport exception, or a page with its
\* script elements in document order.  A script either carries the two
\* ServerData markers or not; its payload parses as JSON or not; oProofList
\* is the list of proofs of a payload that parses.
Proof(type, name) == [type |-> type, name |-> name]
Script(markers, json_ok, proofs) ==
    [markers |-> markers, json_ok |-> json_ok, proofs |-> proofs]
PlainScript == Script(FALSE, FALSE, <<>>)
Recovery1 == <<"boss", "@", "acme", ".", "org">>
Recovery2 == <<"owner", "@", "acme", ".", "org">>
Page(scripts) == [exc |-> FALSE, scripts |-> scripts]
NoPage == [exc |-> TRUE, scripts |-> <<>>]
RecoveryPages ==
    { NoPage,
      Page(<<>>),
      Page(<<PlainScript, Script(TRUE, FALSE, <<>>)>>),
      Page(<<Script(TRUE, TRUE, <<Proof("Sms", <<"555">>)>>)>>),
      Page(<<Script(TRUE, TRUE, <<Proof("Email", Recovery1), Proof("Sms", <<"555">>),
                                  Proof("Email", Recovery2)>>)>>) }

\* for proof in data_dict.get("oProofList", []): the last proof of type Email.
RECURSIVE email_proof(_, _)
email_proof(proofs, recovery_email) ==
    IF proofs = <<>> THEN recovery_email
    ELSE email_proof(Tail(proofs),
                     IF Head(proofs).type = "Email" THEN Str(Head(proofs).name)
                     ELSE recovery_email)

\* for script in scripts: the first script with the markers decides.
RECURSIVE scan_scripts(_)
scan_scripts(scripts) ==
    IF scripts = <<>> THEN [raised |-> "none", value |-> None]
    ELSE IF Head(scripts).markers
         THEN IF Head(scripts).json_ok
              THEN [raised |-> "none", value |-> email_proof(Head(scripts).proofs, None)]
              ELSE [raised |-> "JSONDecodeError", value |-> None]
         ELSE scan_scripts(Tail(scripts))

get_live_recovery_email(page) ==
    IF page.exc THEN [raised |-> "RequestException", value |-> None]
    ELSE scan_scripts(page.scripts)

\* The dict under construction, with its keys in insertion order; a key not
\* yet set holds None.
parse_job_posting_details(job_id, doc) ==
    IF doc.title /\ doc.datePosted
    THEN [raised |-> "none",
          value |-> [t |-> "dict", keys |-> DetailKeys, job_id |-> job_id,
                     email |-> None, live_email_recovery |-> None]]
    ELSE [raised |-> "AttributeError", value |-> None]

\* fetched: whether html_content is a non-empty text.
NewFuture(job_id) ==
    [job_id |-> job_id, st |-> "queued", calls |-> <<>>, fetched |-> FALSE,
     job_details |-> None, recovery_page |-> Page(<<>>), result |-> None,
     exception |-> "none"]

Finish(f, result, exception) ==
    [f EXCEPT !.st = "finished", !.result = result, !.exception = exception]

\* A pipeline that goes on to the POST when the detail fetch has failed.
detail_fetched_or_not(f, html) ==
    LET g == [f EXCEPT !.calls = Append(@, "GET detail"), !.fetched = Truthy(html)]
        p == parse_job_posting_details(f.job_id,
                                       IF Truthy(html) THEN html.doc ELSE AnyDetailDoc)
    IN  IF p.raised # "none" THEN Finish(g, None, p.raised)
        ELSE [g EXCEPT !.st = "running", !.job_details = p.value]

\* html_content = fetch_html(url); if html_content: parse ... else: return None
detail_fetched(f, html) ==
    LET g == [f EXCEPT !.calls = Append(@, "GET detail"), !.fetched = Truthy(html)]
    IN  IF Truthy(html)
        THEN LET p == parse_job_posting_details(f.job_id, html.doc)
             IN  IF p.raised # "none" THEN Finish(g, None, p.raised)
                 ELSE [g EXCEPT !.st = "running", !.job_details = p.value]
        ELSE Finish(g, None, "none")

\* job_details['email'] = make_post_request(job_id);
\* job_details['live_email_recovery'] = ""
email_posted(f, email) ==
    [f EXCEPT !.calls = Append(@, "POST"),
              !.job_details.keys = @ \o <<"email", "live_email_recovery">>,
              !.job_details.email = email,
              !.job_details.live_email_recovery = Str(<<>>)]

\* any(domain in job_details['email'] for domain in live_domains)
any_live_domain(email) ==
    \E k \in 1..Len(live_domains) : Contains(live_domains[k], email.v)

\* The rest of fetch_job_and_email: the recovery lookup when the guard holds,
\* then `return job_details`.
recovery_resolved(f, page) ==
    IF any_live_domain(f.job_details.email)
    THEN LET g == [f EXCEPT !.calls = Append(@, "GET recovery"),
                            !.recovery_page = page]
             r == get_live_recovery_email(page)
         IN  IF r.raised # "none" THEN Finish(g, None, r.raised)
             ELSE Finish([g EXCEPT !.job_details.live_email_recovery = r.value],
                         [g EXCEPT !.job_details.live_email_recovery = r.value].job_details,
                         "none")
    ELSE Finish(f, f.job_details, "none")

Running == {i \in DOMAIN futures : futures[i].st = "running"}

\* The completion order after a step of the pipeline of future i.
just_completed(i) ==
    IF futures'[i].st = "finished" THEN Append(completed, i) ELSE completed

\* A pool that starts a queued item whatever the number of items running.
worker_free_always == TRUE

\* ThreadPoolExecutor(max_workers=5): a queued item is started only by a
\* worker thread that runs no other item, and there are max_workers of them.
worker_free == Cardinality(Running) < max_workers

\* The three steps of a pipeline, each against the answers given.
WorkerFetchDetailFrom(i, runs) ==
    /\ futures[i].st = "queued"
    /\ worker_free
    /\ \E html \in {fetch_html(rs, Text(AnyDetailDoc)) : rs \in runs} :
           futures' = [futures EXCEPT ![i] = detail_fetched(@, html)]
    /\ completed' = just_completed(i)
    /\ UNCHANGED <<call, pc, first_page_html, total_pages, page_number,
                   search_page_html, finished_first, yielded, dict_writer, sink,
                   requested>>

WorkerPostFrom(i, runs) ==
    /\ futures[i].st = "running"
    /\ futures[i].job_details.email = None
    /\ \E email \in {make_post_request(rs) : rs \in runs} :
           futures' = [futures EXCEPT ![i] = email_posted(@, email)]
    /\ completed' = just_completed(i)
    /\ UNCHANGED <<call, pc, first_page_html, total_pages, page_number,
                   search_page_html, finished_first, yielded, dict_writer, sink,
                   requested>>

\* A pipeline that writes the row of its record itself.
WorkerRecoverFrom_writing_the_row(i, pages) ==
    /\ futures[i].st = "running"
    /\ futures[i].job_details.email # None
    /\ \E page \in pages :
           futures' = [futures EXCEPT ![i] = recovery_resolved(@, page)]
    /\ completed' = just_completed(i)
    /\ sink' = IF futures'[i].result # None
               THEN Append(sink, [kind |-> "row", future |-> i,
                                  job_details |-> futures'[i].result])
               ELSE sink
    /\ UNCHANGED <<call, pc, first_page_html, total_pages, page_number,
                   search_page_html, finished_first, yielded, dict_writer,
                   requested>>

WorkerRecoverFrom(i, pages) ==
    /\ futures[i].st = "running"
    /\ futures[i].job_details.email # None
    /\ \E page \in pages :
           futures' = [futures EXCEPT ![i] = recovery_resolved(@, page)]
    /\ completed' = just_completed(i)
    /\ UNCHANGED <<call, pc, first_page_html, total_pages, page_number,
                   search_page_html, finished_first, yielded, dict_writer, sink,
                   requested>>

WorkerFetchDetail(i) == WorkerFetchDetailFrom(i, DetailRuns)
WorkerPost(i) == WorkerPostFrom(i, PostRuns)
WorkerRecover(i) == WorkerRecoverFrom(i, RecoveryPages)

---------------------------------------------------------------------------
(* main.  pc is "start" before the initial fetch, "crawling" in the loop   *)
(* over the listing pages, "draining" in the as_completed loop,            *)
(* "unwinding" while an exception leaves the two with blocks (the          *)
(* executor's exit waits for every future), and at the end "done" (the     *)
(* CSV message printed), "aborted" (the first page was not fetched) or     *)
(* "raised" (an exception left main).                                      *)

\* main counting only the full pages.
first_page_fetched_rounding_down(html) ==
    IF Truthy(html)
    THEN LET total_postings == extract_total_postings(html.doc)
         IN  IF total_postings.raised THEN [pc |-> "raised", total_pages |-> 0]
             ELSE [pc |-> "crawling",
                   total_pages |-> total_postings.value \div results_per_page]
    ELSE [pc |-> "aborted", total_pages |-> 0]

\* main going on to crawl one page when the initial fetch has failed.
first_page_fetched_unchecked(html) ==
    IF Truthy(html)
    THEN LET total_postings == extract_total_postings(html.doc)
         IN  IF total_postings.raised THEN [pc |-> "raised", total_pages |-> 0]
             ELSE [pc |-> "crawling",
                   total_pages |->
                       (total_postings.value + results_per_page - 1)
                           \div results_per_page]
    ELSE [pc |-> "crawling", total_pages |-> 1]

\* What main does with the result of the initial fetch: total_postings,
\* total_pages and the crawl, or the failure message.
first_page_fetched(html) ==
    IF Truthy(html)
    THEN LET total_postings == extract_total_postings(html.doc)
         IN  IF total_postings.raised THEN [pc |-> "raised", total_pages |-> 0]
             ELSE [pc |-> "crawling",
                   total_pages |->
                       (total_postings.value + results_per_page - 1)
                           \div results_per_page]
    ELSE [pc |-> "aborted", total_pages |-> 0]

\* job_ids = extract_job_ids(search_page_html): BeautifulSoup(None) raises.
crawl_job_ids(html) ==
    IF html = None THEN [raised |-> TRUE, job_ids |-> <<>>]
    ELSE IF html.empty THEN [raised |-> FALSE, job_ids |-> <<>>]
    ELSE [raised |-> FALSE, job_ids |-> extract_job_ids(html.doc.articles)]

\* main submitting the items of the first answer and crawling from page 2.
MainStartFrom_crawling_the_first_answer(runs, whole) ==
    /\ pc = "start"
    /\ \E html \in {fetch_html(rs, Text(AnyListingDoc)) : rs \in runs} :
           LET next == first_page_fetched(html)
               ids == IF next.pc = "crawling" /\ next.total_pages >= 1
                      THEN extract_job_ids(html.doc.articles) ELSE <<>>
           IN  /\ first_page_html' = IF whole THEN html ELSE Kept(html)
               /\ pc' = next.pc
               /\ total_pages' = next.total_pages
               /\ page_number' =
                      IF next.pc # "crawling" THEN page_number
                      ELSE IF next.total_pages >= 1 THEN 2 ELSE 1
               /\ futures' = [k \in 1..Len(ids) |-> NewFuture(ids[k])]
    /\ requested' = Append(requested, 1)
    /\ UNCHANGED <<call, search_page_html, completed, finished_first,
                   yielded, dict_writer, sink>>

\* The initial fetch, against the answers given; first_page_html holds the
\* whole text, or what Kept keeps of it.
MainStartFrom(runs, whole) ==
    /\ pc = "start"
    /\ \E html \in {fetch_html(rs, Text(AnyListingDoc)) : rs \in runs} :
           LET next == first_page_fetched(html)
           IN  /\ first_page_html' = IF whole THEN html ELSE Kept(html)
               /\ pc' = next.pc
               /\ total_pages' = next.total_pages
               /\ page_number' = IF next.pc = "crawling" THEN 1 ELSE page_number
    /\ requested' = Append(requested, 1)
    /\ UNCHANGED <<call, search_page_html, futures, completed, finished_first,
                   yielded, dict_writer, sink>>

\* A crawl that requests the next page only once the items submitted so far
\* have finished.
MainCrawlPageFrom_after_the_items(runs, most) ==
    /\ pc = "crawling"
    /\ \A i \in DOMAIN futures : futures[i].st = "finished"
    /\ page_number <= total_pages
    /\ \E html \in {fetch_html(rs, Text(AnyListingDoc)) : rs \in runs} :
           LET ids == crawl_job_ids(html)
           IN  /\ search_page_html' = Kept(html)
               /\ Len(futures) + Len(ids.job_ids) <= most
               /\ IF ids.raised
                  THEN /\ pc' = "unwinding"
                       /\ UNCHANGED <<futures, page_number>>
                  ELSE /\ futures' = futures \o
                               [k \in 1..Len(ids.job_ids) |-> NewFuture(ids.job_ids[k])]
                       /\ page_number' = page_number + 1
                       /\ pc' = pc
    /\ requested' = Append(requested, page_number)
    /\ UNCHANGED <<call, first_page_html, total_pages, completed, finished_first,
                   yielded, dict_writer, sink>>

MainStart == MainStartFrom(FirstPageRuns, FALSE)

\* One iteration of the loop over the listing pages, against the answers
\* given and in a run of at most `most` submissions.
MainCrawlPageFrom(runs, most) ==
    /\ pc = "crawling"
    /\ page_number <= total_pages
    /\ \E html \in {fetch_html(rs, Text(AnyListingDoc)) : rs \in runs} :
           LET ids == crawl_job_ids(html)
           IN  /\ search_page_html' = Kept(html)
               /\ Len(futures) + Len(ids.job_ids) <= most
               /\ IF ids.raised
                  THEN /\ pc' = "unwinding"
                       /\ UNCHANGED <<futures, page_number>>
                  ELSE /\ futures' = futures \o
                               [k \in 1..Len(ids.job_ids) |-> NewFuture(ids.job_ids[k])]
                       /\ page_number' = page_number + 1
                       /\ pc' = pc
    /\ requested' = Append(requested, page_number)
    /\ UNCHANGED <<call, first_page_html, total_pages, completed, finished_first,
                   yielded, dict_writer, sink>>

MainCrawlPage == MainCrawlPageFrom(CrawlPageRuns, MaxFutures)

\* A drain loop that starts once the first page of the loop has been crawled.
MainCrawlEnd_after_one_page ==
    /\ pc = "crawling"
    /\ page_number > 1
    /\ pc' = "draining"
    /\ finished_first' = {i \in DOMAIN futures : futures[i].st = "finished"}
    /\ UNCHANGED <<call, first_page_html, total_pages, page_number, search_page_html,
                   futures, completed, yielded, dict_writer, sink, requested>>

MainCrawlEnd ==
    /\ pc = "crawling"
    /\ page_number > total_pages
    /\ pc' = "draining"
    /\ finished_first' = {i \in DOMAIN futures : futures[i].st = "finished"}
    /\ UNCHANGED <<call, first_page_html, total_pages, page_number, search_page_html,
                   futures, completed, yielded, dict_writer, sink, requested>>

\* as_completed yielding the futures in any order whatever.
as_completed_any_order ==
    {i \in DOMAIN futures \ yielded : futures[i].st = "finished"}

\* The futures as_completed(futures) can yield next: first those it found
\* finished when it was called, in the order of a set of futures (any
\* order); then the others, each once it has finished, in the order in which
\* they finish.
as_completed ==
    IF finished_first \ yielded # {} THEN finished_first \ yielded
    ELSE LET later == SelectSeq(completed,
                                LAMBDA i : i \notin finished_first /\ i \notin yielded)
         IN  IF later = <<>> THEN {} ELSE {Head(later)}

\* The body of `if job_details:` writing the header before every row.
written_with_a_header_each_time(writer, i) ==
    << [kind |-> "header", future |-> i, fieldnames |-> futures[i].result.keys],
       [kind |-> "row", future |-> i, job_details |-> futures[i].result] >>

\* What the body of `if job_details:` writes to the file for future i: the
\* header when there is no writer yet, then the row.
written(writer, i) ==
    (IF writer = None
     THEN <<[kind |-> "header", future |-> i,
             fieldnames |-> futures[i].result.keys]>>
     ELSE <<>>)
        \o <<[kind |-> "row", future |-> i, job_details |-> futures[i].result]>>

\* dict_writer.writerow(job_details) raises ValueError on a key that is not
\* among the fieldnames.
writerow_raises(writer, job_details) ==
    \E k \in DOMAIN job_details.keys :
        \A n \in DOMAIN writer.fieldnames : writer.fieldnames[n] # job_details.keys[k]

\* One iteration of `for future in as_completed(futures)`.
MainDrain ==
    /\ pc = "draining"
    /\ \E i \in as_completed :
           /\ yielded' = yielded \cup {i}
           /\ IF futures[i].exception # "none"
              THEN /\ pc' = "unwinding"
                   /\ UNCHANGED <<dict_writer, sink>>
              ELSE IF futures[i].result # None
                   THEN /\ dict_writer' =
                               IF dict_writer = None
                               THEN [t |-> "DictWriter",
                                     fieldnames |-> futures[i].result.keys]
                               ELSE dict_writer
                        /\ IF writerow_raises(dict_writer', futures[i].result)
                           THEN /\ pc' = "unwinding"
                                /\ sink' = sink \o SubSeq(written(dict_writer, i), 1,
                                                          Len(written(dict_writer, i)) - 1)
                           ELSE /\ pc' = pc
                                /\ sink' = sink \o written(dict_writer, i)
                   ELSE /\ pc' = pc
                        /\ UNCHANGED <<dict_writer, sink>>
    /\ UNCHANGED <<call, first_page_html, total_pages, page_number, search_page_html,
                   futures, completed, finished_first, requested>>

MainDrainEnd ==
    /\ pc = "draining"
    /\ yielded = DOMAIN futures
    /\ pc' = "done"
    /\ UNCHANGED <<call, first_page_html, total_pages, page_number, search_page_html,
                   futures, completed, finished_first, yielded, dict_writer, sink,
                   requested>>

\* An exception leaving main without the executor waiting for its futures.
MainUnwind_without_waiting ==
    /\ pc = "unwinding"
    /\ pc' = "raised"
    /\ UNCHANGED <<call, first_page_html, total_pages, page_number, search_page_html,
                   futures, completed, finished_first, yielded, dict_writer, sink,
                   requested>>

MainUnwind ==
    /\ pc = "unwinding"
    /\ \A i \in DOMAIN futures : futures[i].st = "finished"
    /\ pc' = "raised"
    /\ UNCHANGED <<call, first_page_html, total_pages, page_number, search_page_html,
                   futures, completed, finished_first, yielded, dict_writer, sink,
                   requested>>

Init == MainInit /\ call = IdleCall

Next ==
    \/ MainStart
    \/ MainCrawlPage
    \/ MainCrawlEnd
    \/ MainDrain
    \/ MainDrainEnd
    \/ MainUnwind
    \/ \E i \in DOMAIN futures : WorkerFetchDetail(i)
    \/ \E i \in DOMAIN futures : WorkerPost(i)
    \/ \E i \in DOMAIN futures : WorkerRecover(i)

Spec == Init /\ [][Next]_vars

\* The run when every network call returns and every thread that can take a
\* step takes one: main, and the worker threads of the pool.
MainStep ==
    MainStart \/ MainCrawlPage \/ MainCrawlEnd \/ MainDrain \/ MainDrainEnd \/ MainUnwind
WorkerStep ==
    \E i \in DOMAIN futures : WorkerFetchDetail(i) \/ WorkerPost(i) \/ WorkerRecover(i)
SpecLive == Spec /\ WF_vars(MainStep) /\ WF_vars(WorkerStep)

---------------------------------------------------------------------------
(* The page count: main against a first page that shows any count up to    *)
(* MaxTotal, first_page_html holding the whole text, and a crawl whose      *)
(* pages show no item (or are not fetched), so that no pipeline runs.       *)
MaxTotal == 137

PagesTexts ==
    {Text([summary |-> TRUE, found |-> Digits(n), articles |-> <<>>]) : n \in 0..MaxTotal}
        \cup {Text([summary |-> TRUE, found |-> <<"0", ",", "1", "3", "7">>,
                    articles |-> <<>>])}
PagesRuns == { <<Response(200, t)>> : t \in PagesTexts }
NoArticleRuns ==
    { <<Response(200, Text(AnyListingDoc))>>,
      <<Response(200, Text([summary |-> FALSE, found |-> <<>>,
                            articles |-> << <<"banner", "-", "top">> >>]))>>,
      <<Response(404, Text(AnyListingDoc))>> }

PagesStart == MainStartFrom(PagesRuns, TRUE)
PagesCrawlPage == MainCrawlPageFrom(NoArticleRuns, MaxFutures)

NextPages ==
    \/ PagesStart
    \/ PagesCrawlPage
    \/ MainCrawlEnd
    \/ MainDrainEnd
    \/ MainUnwind

SpecPages == Init /\ [][NextPages]_vars

---------------------------------------------------------------------------
(* The pool under more items than it has workers: main past its initial    *)
(* fetch, with a count that gives PoolPages pages, crawls them, each        *)
(* answered at once, and submits up to MaxPoolFutures items, whose          *)
(* pipelines meet one answer each: the detail page is fetched and parsed,   *)
(* the POST is answered 404, and no recovery lookup follows.                *)
MaxPoolFutures == 6
PoolPages == (MaxPoolFutures + MaxArticles - 1) \div MaxArticles

InitPool ==
    /\ call = IdleCall
    /\ pc = "crawling"
    /\ first_page_html = Kept(Text(AnyListingDoc))
    /\ total_pages = PoolPages
    /\ page_number = 1
    /\ search_page_html = None
    /\ futures = <<>>
    /\ completed = <<>>
    /\ finished_first = {}
    /\ yielded = {}
    /\ dict_writer = None
    /\ sink = <<>>
    /\ requested = <<1>>

PoolCrawlPage ==
    MainCrawlPageFrom({ <<Response(200, t)>> : t \in CrawlPageTexts }, MaxPoolFutures)
PoolFetchDetail(i) ==
    WorkerFetchDetailFrom(i, { <<Response(200, Text(AnyDetailDoc))>> })
PoolPost(i) == WorkerPostFrom(i, { <<Response(404, AnyPostBody)>> })
PoolRecover(i) == WorkerRecoverFrom(i, {Page(<<>>)})

NextPool ==
    \/ PoolCrawlPage
    \/ \E i \in DOMAIN futures : PoolFetchDetail(i)
    \/ \E i \in DOMAIN futures : PoolPost(i)
    \/ \E i \in DOMAIN futures : PoolRecover(i)

SpecPool == InitPool /\ [][NextPool]_vars

---------------------------------------------------------------------------
(* Properties *)

RunEnded == pc \in {"done", "aborted", "raised"}

\* The rows written to the sink for the future with index i.
Rows(i) == Cardinality({k \in DOMAIN sink : sink[k].kind = "row" /\ sink[k].future = i})

Range(seq) == {seq[k] : k \in DOMAIN seq}

\* C1: a pipeline that produces no record, by returning None or by raising,
\* does not abort the run: once the drain loop has taken such a future, the
\* run still ends with the CSV message, and with one row for every record the
\* other submissions produced.
C1_FailedItemDoesNotAbortRun ==
    (RunEnded /\ \E i \in yielded : futures[i].result = None)
        => /\ pc = "done"
           /\ \A j \in DOMAIN futures : futures[j].result # None => Rows(j) = 1

\* C2: a run ends done unless the initial fetch fails; in particular a run
\* that has entered the crawl loop, and in which no pipeline has raised, ends
\* done whatever the fetches of the crawl loop return.
C2_RunEndsDoneAfterFirstPage ==
    (/\ RunEnded
     /\ Len(requested) > 1
     /\ \A i \in DOMAIN futures : futures[i].exception = "none")
        => pc = "done"

\* C3: when the initial fetch of listing page 1 fails, main aborts at once:
\* page 1 stays the only listing request, nothing is submitted to the pool
\* and neither a header nor a row is written.
C3_FirstPageFailureAborts ==
    (pc # "start" /\ first_page_html = None)
        => /\ pc = "aborted"
           /\ requested = <<1>>
           /\ futures = <<>>
           /\ dict_writer = None
           /\ sink = <<>>

C3_Witness == pc = "aborted" /\ first_page_html = None /\ requested = <<1>>

---------------------------------------------------------------------------
(* Properties of one call of fetch_html or make_post_request (SpecRetry) *)

All503(statuses) == \A k \in DOMAIN statuses : statuses[k] = 503

\* The call ended in failure: None from fetch_html, 'Error' from
\* make_post_request.
CallFailed ==
    IF call.fn = "fetch_html" THEN call.result = None
    ELSE call.result = Str(ErrorStr)

\* The call returned what the 200 answer holds: its text from fetch_html,
\* the address or 'Not found' of a well-formed envelope from make_post_request.
CallSucceeded ==
    IF call.fn = "fetch_html" THEN call.result = call.last.body
    ELSE call.last.body.update =>
             call.result = IF call.last.body.hasAnchor
                           THEN Str(Strip(call.last.body.text))
                           ELSE Str(NotFoundStr)

C5_TerminalOutcomeEndsFetch ==
    call.fn = "fetch_html" =>
        \A k \in DOMAIN call.statuses :
            call.statuses[k] \notin {200, 503}
                => /\ k = Len(call.statuses)
                   /\ call.requests = k
                   /\ call.returned
                   /\ call.result = None
                   /\ Len(call.waits) = k - 1

C5_Witness ==
    /\ call.fn = "fetch_html"
    /\ call.returned
    /\ call.statuses = <<503, 0>>
    /\ call.waits = <<1>>

\* C6: a call waits only between attempts: a call with the default retries
\* and backoff_factor that has made k attempts has slept k - 1 times, the
\* i-th sleep lasting
\* backoff_factor ^ (i - 1) seconds, and no sleep follows its last attempt.
C6_WaitsOnlyBetweenAttempts ==
    (/\ call.returned
     /\ call.retries = default_retries
     /\ call.backoff_factor = default_backoff_factor)
        => /\ Len(call.waits) = call.requests - 1
           /\ \A i \in DOMAIN call.waits :
                  call.waits[i] = Pow(call.backoff_factor, i - 1)

\* C7: make_post_request gives 'Error' exactly when the retries on 503 ran
\* out or the request raised a transport exception, 'Failed' exactly when the
\* status was neither 200 nor 503, the trimmed address for a 200 whose
\* fragment holds a mailto anchor and 'Not found' for a 200 whose fragment
\* holds none.
C7_FourWayClassification ==
    (call.fn = "make_post_request" /\ call.returned)
        => /\ call.result = Str(ErrorStr)
                  <=> (call.last.exc \/ call.last.status_code = 503)
           /\ call.result = Str(FailedStr)
                  <=> (~call.last.exc /\ call.last.status_code \notin {200, 503})
           /\ (~call.last.exc /\ call.last.status_code = 200
                   /\ call.last.body.hasAnchor)
                  => call.result = Str(Strip(call.last.body.text))
           /\ (~call.last.exc /\ call.last.status_code = 200
                   /\ call.last.body.update /\ ~call.last.body.hasAnchor)
                  => call.result = Str(NotFoundStr)

---------------------------------------------------------------------------
(* Properties of the item pipeline *)

\* The domain of an address: what follows its last '@'.
RECURSIVE DomainOf(_)
DomainOf(s) ==
    IF \E k \in DOMAIN s : s[k] = "@"
    THEN DomainOf(SubSeq(s, 1 + (CHOOSE k \in DOMAIN s : s[k] = "@"), Len(s)))
    ELSE s

\* The contact resolution is Found(address): the email is none of the three
\* strings that stand for NotFound, RequestFailed and NetworkError.
IsFound(email) == email.v \notin {NotFoundStr, FailedStr, ErrorStr}

RecoveryAttempted(f) == "GET recovery" \in Range(f.calls)

\* C8: a recovery GET is made for an item only if its contact resolution is
\* Found(address) with the domain of the address among live_domains; every
\* record of an item without a recovery GET has the recovery field
\* NotAttempted (the empty string).
C8_RecoveryOnlyForLiveDomains ==
    \A i \in DOMAIN futures :
        /\ RecoveryAttempted(futures[i])
               => /\ IsFound(futures[i].job_details.email)
                  /\ DomainOf(futures[i].job_details.email.v) \in Range(live_domains)
        /\ (futures[i].result # None /\ ~RecoveryAttempted(futures[i]))
               => futures[i].result.live_email_recovery = Str(<<>>)

\* The three lookup misses of get_live_recovery_email.
NoMarkerScript(page) == \A k \in DOMAIN page.scripts : ~page.scripts[k].markers
FirstMarkerScript(page) ==
    page.scripts[CHOOSE k \in DOMAIN page.scripts :
                     /\ page.scripts[k].markers
                     /\ \A j \in 1..(k - 1) : ~page.scripts[j].markers]
JsonParseFailure(page) == ~NoMarkerScript(page) /\ ~FirstMarkerScript(page).json_ok
NoEmailProof(page) ==
    /\ ~NoMarkerScript(page)
    /\ FirstMarkerScript(page).json_ok
    /\ \A k \in DOMAIN FirstMarkerScript(page).proofs :
           FirstMarkerScript(page).proofs[k].type # "Email"
LookupMiss(page) ==
    ~page.exc /\ (NoMarkerScript(page) \/ JsonParseFailure(page) \/ NoEmailProof(page))

\* C9: once the recovery GET of an item has been answered, every lookup miss
\* is resolved to NotFound (None): the pipeline returns its record, with the
\* recovery field None, and no exception leaves it.
C9_LookupMissIsNotFound ==
    \A i \in DOMAIN futures :
        (/\ futures[i].st = "finished"
         /\ RecoveryAttempted(futures[i])
         /\ LookupMiss(futures[i].recovery_page))
            => /\ futures[i].exception = "none"
               /\ futures[i].result # None
               /\ futures[i].result.live_email_recovery = None

\* C10: by the end of the run exactly one row has been written for every
\* submission that returned a record, and none for a submission that did not.
C10_EveryRecordWrittenOnce ==
    (RunEnded /\ pc # "aborted")
        => \A i \in DOMAIN futures :
               Rows(i) = IF futures[i].result # None THEN 1 ELSE 0

\* C11: within one run the sink header is written at most once.  As soon as
\* a record has been consumed by the drain step the header is the first thing
\* in the sink, written for that record and with its field set, and every
\* row has that same field set; while no record has been consumed, and in
\* every run that produces none, there is no header; and a run that ends
\* done has a header exactly when some pipeline produced a record.
SinkHeaders == {k \in DOMAIN sink : sink[k].kind = "header"}
SinkRows == {k \in DOMAIN sink : sink[k].kind = "row"}
RecordProduced == \E i \in DOMAIN futures : futures[i].result # None
Queued == {i \in DOMAIN futures : futures[i].st = "queued"}
C12_AtMostFivePipelinesExecuting ==
    /\ [](Cardinality(Running) <= 5)
    /\ [][\A i \in Queued : futures'[i].st # "queued" => Cardinality(Running) < 5]_vars

\* Five pipelines executing and a sixth item waiting in the queue.
C12_Witness == Cardinality(Running) = 5 /\ Queued # {}

\* C13: the sink is written from a single consumer path.  Every step that
\* writes a header or a row is a step of main in its drain loop, taking one
\* finished future and writing the entries of that future alone at the end
\* of the sink; no step of a pipeline changes the sink, and no step writes
\* for two futures.
C13_SinkWrittenOnlyByDrainStep ==
    [][sink' # sink =>
          /\ pc = "draining"
          /\ futures' = futures
          /\ \E i \in DOMAIN futures \ yielded :
                 /\ futures[i].st = "finished"
                 /\ yielded' = yielded \cup {i}
                 /\ Len(sink') > Len(sink)
                 /\ SubSeq(sink', 1, Len(sink)) = sink
                 /\ \A k \in (Len(sink) + 1)..Len(sink') : sink'[k].future = i]_vars

\* A row is in the sink while the pipeline of another item is executing.
C13_Witness == SinkRows # {} /\ Running # {}

\* C14: records are delivered to the sink in completion order: of any two
\* records written, the one whose pipeline finished first is written first.
Finished(i) == CHOOSE k \in DOMAIN completed : completed[k] = i
StateOrder == [queued |-> 0, running |-> 1, finished |-> 2]
C15_MainWaitsForEveryPipeline ==
    /\ [](RunEnded =>
              \A i \in DOMAIN futures :
                  futures[i].st = "finished" /\ futures[i].calls # <<>>)
    /\ [][\A i \in DOMAIN futures :
              /\ i \in DOMAIN futures'
              /\ StateOrder[futures[i].st] <= StateOrder[futures'[i].st]]_vars
    /\ <>RunEnded

\* An exception is leaving main while a submitted pipeline has not finished.
C15_Witness ==
    pc = "unwinding" /\ \E i \in DOMAIN futures : futures[i].st # "finished"

\* C16: crawling is strictly sequential.  The crawl loop requests the pages
\* in increasing order, 1, 2, 3, ... after the initial request of page 1;
\* every step makes at most one listing request; the items of a page are
\* submitted, at the end of the list of futures, in the very step that
\* requests the page, so before the next page is requested; and main never
\* waits for a pipeline: while pages remain, its next request (answered
\* here by an empty page) can be made whatever the state of the items
\* submitted.
NextPageRequested ==
    MainCrawlPageFrom({ <<Response(200, EmptyText(AnyListingDoc))>> }, MaxFutures)
C16_CrawlingIsSequential ==
    /\ [](\A k \in 2..Len(requested) : requested[k] = k - 1)
    /\ [](pc = "crawling" /\ page_number <= total_pages => ENABLED NextPageRequested)
    /\ [][/\ requested' # requested =>
                 \E p \in 1..(MaxPages + 1) : requested' = Append(requested, p)
          /\ futures' # futures =>
                 /\ Len(futures') >= Len(futures)
                 /\ \A i \in DOMAIN futures : futures'[i].job_id = futures[i].job_id
          /\ Len(futures') > Len(futures) =>
                 /\ pc = "crawling"
                 /\ requested' = Append(requested, page_number)
                 /\ page_number' = page_number + 1
                 /\ \A i \in (Len(futures) + 1)..Len(futures') :
                        futures'[i].st = "queued"]_vars

\* Main is about to request page 2 while a pipeline of page 1 is executing.
C16_Witness ==
    /\ pc = "crawling"
    /\ requested = <<1, 1>>
    /\ page_number = 2
    /\ total_pages = 2
    /\ Running # {}

\* C17: within one pipeline the network calls are strictly ordered and at
\* most one is in flight: the calls made are a prefix of detail GET, POST,
\* recovery GET, one call at most per step; the POST is made only after the
\* detail fetch has succeeded and the page has been parsed, the recovery GET
\* only after the POST has returned and at most once; and a pipeline whose
\* detail fetch has failed ends after that one call, with no record.
PipelineCalls == <<"GET detail", "POST", "GET recovery">>
C17_PipelineCallsAreOrdered ==
    /\ [](\A i \in DOMAIN futures :
              LET f == futures[i]
              IN  /\ Len(f.calls) <= 3
                  /\ f.calls = SubSeq(PipelineCalls, 1, Len(f.calls))
                  /\ f.st = "queued" => f.calls = <<>>
                  /\ Len(f.calls) >= 2 => f.fetched /\ f.job_details # None
                  /\ Len(f.calls) = 3 => f.job_details.email # None
                  /\ f.st = "finished" /\ ~f.fetched =>
                         /\ f.calls = <<"GET detail">>
                         /\ f.job_details = None
                         /\ f.result = None)
    /\ [][\A i \in DOMAIN futures :
              /\ Len(futures'[i].calls) <= Len(futures[i].calls) + 1
              /\ SubSeq(futures'[i].calls, 1, Len(futures[i].calls)) = futures[i].calls]_vars

\* One pipeline has made its three calls and another has ended after a failed
\* detail fetch.
C17_Witness ==
    \E i, j \in DOMAIN futures :
        /\ futures[i].calls = PipelineCalls
        /\ futures[j].st = "finished" /\ ~futures[j].fetched

CrawlFailed == pc \in {"unwinding", "raised"} /\ Len(requested) > 1 /\ page_number <= total_pages
C19_DrainingOnlyAfterCrawling ==
    /\ sink # <<>> \/ pc \in {"draining", "done"} =>
           /\ page_number = total_pages + 1
           /\ requested = <<1>> \o [k \in 1..total_pages |-> k]
    /\ pc \in {"start", "crawling"} => sink = <<>> /\ yielded = {} /\ dict_writer = None
    /\ CrawlFailed => sink = <<>> /\ yielded = {} /\ dict_writer = None

\* A run ended by a failure of the crawl, with a record produced and nothing
\* in the sink.
C19_Witness == pc = "raised" /\ CrawlFailed /\ RecordProduced /\ sink = <<>>

\* C20: listing page 1 is requested twice in every run whose total is at
\* least 1.  After the initial request nothing is submitted and the loop is
\* at page 1; once the loop has made its first iteration the requests begin
\* 1, 1; no item of the first answer is ever submitted, the items of page 1
\* being those of the second answer; and total_pages and first_page_html are
\* set by the initial fetch alone and never change afterwards.
FirstAnswerIds == {Str(<<"102">>)}
C20_PageOneRequestedTwice ==
    /\ [](pc = "crawling" /\ page_number = 1 => requested = <<1>> /\ futures = <<>>)
    /\ [](/\ total_pages >= 1
          /\ pc \in {"crawling", "draining", "unwinding", "done", "raised"}
          /\ pc = "crawling" => page_number > 1
          => Len(requested) >= 2 /\ requested[1] = 1 /\ requested[2] = 1)
    /\ [](total_pages = 0 => Len(requested) <= 1)
    /\ [](\A i \in DOMAIN futures : futures[i].job_id \notin FirstAnswerIds)
    /\ [][pc # "start" =>
              total_pages' = total_pages /\ first_page_html' = first_page_html]_vars

\* A finished run of two pages whose only item came with the second answer
\* for page 1.
C20_Witness ==
    /\ pc = "done"
    /\ requested = <<1, 1, 2>>
    /\ Len(futures) = 1
    /\ futures[1].job_id = Str(<<"101">>)

====
